---- MODULE Spec2Model ----
(***************************************************************************)
(* Model of the citizen-service alert pipeline:                            *)
(*   - AlertController (src/controllers/alert.controller.js)               *)
(*   - UploadService   (src/unnamed/part_002)                              *)
(* The alert service (services/alert.service) is not part of the sources;  *)
(* its operations are modelled from the specification and are marked so.   *)
(*                                                                         *)
(* One creation request is followed from its upload to its response, step  *)
(* by step at every await and at every file-system call; the other         *)
(* handlers then run as single steps against the disk and the alert store  *)
(* that request left behind.                                               *)
(***************************************************************************)
EXTENDS Integers, Sequences, FiniteSets, TLC

\* ------------------------------------------------------------------------
\* Bounds
\* ------------------------------------------------------------------------
\* files attached to the creation request (multer would allow arrays of 5)
MaxFiles == 2

\* comments one alert may collect
MaxComments == 1

\* ------------------------------------------------------------------------
\* Strings: a file name is prefix tokens, a unique id, suffix tokens, so that
\* `thumb_${name}` and `thumb_${name}.jpg` are real concatenations.
\* ------------------------------------------------------------------------
Name(pre, id, suf) == [pre |-> pre, id |-> id, suf |-> suf]

NoName == Name(<<>>, 0, <<>>)

\* multer filename(): Date.now() + '-' + random + extension, unique per file
filename(n) == Name(<<>>, n, <<>>)

\* `thumb_${path.basename(file.path)}`
ThumbOfImage(name) == Name(<<"thumb_">> \o name.pre, name.id, name.suf)

\* `thumb_${path.basename(file.path)}.jpg`
ThumbOfVideo(name) == Name(<<"thumb_">> \o name.pre, name.id, name.suf \o <<".jpg">>)

\* optimizedPath + '.tmp'
TmpOf(name) == Name(name.pre, name.id, name.suf \o <<".tmp">>)

\* a path under uploads/: folder and file name
Path(folder, name) == [folder |-> folder, name |-> name]

\* a URL: its directory segments and its last segment (path.basename)
Url(dirs, base) == [dirs |-> dirs, base |-> base]

\* JavaScript null, for a proof's thumbnail
Null == Url(<<>>, NoName)

\* fileUrl.includes('/photos/') and the like: a directory segment of that name
Includes(url, seg) == \E k \in 1..Len(url.dirs) : url.dirs[k] = seg

\* '/uploads/thumbnails/audio_default.png'
AudioDefault == Url(<<"uploads", "thumbnails">>, Name(<<"audio_default.png">>, 0, <<>>))

\* ------------------------------------------------------------------------
\* MIME types: major '/' minor, so that startsWith('video/') is a test on major
\* ------------------------------------------------------------------------
Mime(major, minor) == [major |-> major, minor |-> minor]

allowedMimeTypes ==
  { Mime("image", "jpeg"), Mime("image", "png"), Mime("image", "gif"), Mime("image", "webp"),
    Mime("video", "mp4"), Mime("video", "quicktime"), Mime("video", "x-msvideo"), Mime("video", "webm"),
    Mime("audio", "mpeg"), Mime("audio", "wav"), Mime("audio", "ogg"), Mime("audio", "webm") }

\* multer fileFilter
fileFilter(mimetype) == mimetype \in allowedMimeTypes

\* multer diskStorage destination
destination(mimetype) ==
  IF mimetype.major = "video" THEN "videos"
  ELSE IF mimetype.major = "audio" THEN "audio"
  ELSE "photos"

\* which branch of processFile takes the file
processFileBranch(mimetype) ==
  IF mimetype.major = "image" THEN "image"
  ELSE IF mimetype.major = "video" THEN "video"
  ELSE IF mimetype.major = "audio" THEN "audio"
  ELSE "unsupported"

\* MIME types a client may send with the creation request
UploadMimes ==
  { Mime("image", "jpeg"), Mime("video", "mp4"), Mime("audio", "mpeg"), Mime("application", "pdf") }

\* ------------------------------------------------------------------------
\* Request bodies
\* ------------------------------------------------------------------------
\* a JavaScript value as far as the controller looks at it
Undefined == [kind |-> "undefined", elems |-> <<>>]
Str == [kind |-> "string", elems |-> <<>>]
Arr(elems) == [kind |-> "array", elems |-> elems]

IsArray(v) == v.kind = "array"
Truthy(v) == v.kind # "undefined"

\* elements a client may put in coordinates
IsNumber(e) == e \in {"2.35", "48.85"}

CoordInputs ==
  { Undefined, Str, Arr(<<"2.35">>), Arr(<<"2.35", "48.85">>),
    Arr(<<"2.35", "48.85", "2.35">>), Arr(<<"abc", "null">>) }

\* proofs a client may send inline (pre-uploaded assets)
InlinePhoto ==
  [type |-> "photo", url |-> Url(<<"uploads", "photos">>, Name(<<"pre">>, 0, <<>>)),
   thumbnail |-> Null, size |-> "original"]
InlineMismatch ==
  [type |-> "photo", url |-> Url(<<"uploads", "videos">>, Name(<<"pre">>, 0, <<>>)),
   thumbnail |-> Null, size |-> "original"]

ProofInputs ==
  { Undefined, Str, Arr(<<>>), Arr(<<InlinePhoto>>), Arr(<<InlineMismatch, InlinePhoto>>) }

Bodies == [coordinates : CoordInputs, proofs : ProofInputs, fieldsOk : BOOLEAN]

NoBody == [coordinates |-> Undefined, proofs |-> Undefined, fieldsOk |-> FALSE]

\* ------------------------------------------------------------------------
\* The disk under uploads/: a function from the paths that exist to their content
\* ------------------------------------------------------------------------
Exists(d, p) == p \in DOMAIN d

WriteFile(d, p, c) == [q \in (DOMAIN d) \cup {p} |-> IF q = p THEN c ELSE d[q]]

Unlink(d, p) == [q \in (DOMAIN d) \ {p} |-> d[q]]

\* a copy that leaves the source in place
MutRename(d, from, to) == WriteFile(d, to, d[from])

Rename(d, from, to) ==
  [q \in ((DOMAIN d) \ {from}) \cup {to} |-> IF q = to THEN d[from] ELSE d[q]]

EmptyDisk == [q \in {} |-> "original"]

VARIABLES
  disk,          \* the files under uploads/
  alerts,        \* the alert store: the persisted alerts, in order of creation
  pc,            \* where the creation request stands
  body,          \* req.body of the creation request
  files,         \* req.files of the creation request, as stored by multer
  idx,           \* the file of req.files the loop is at (1-based)
  proofs,        \* createAlert's local proofs array
  fileState,     \* per file: pending, processing, ok, degraded, failed
  results,       \* per file: what processFile returned
  processCalls,  \* the files processFile was invoked on, in order
  ffmpegErrors,  \* the files whose frame extraction ended with 'error'
  persistCalls,  \* the alertData handed to alertService.createAlert, in order
  res,           \* the response of the creation request
  serviceKey,    \* process.env.SERVICE_API_KEY
  last           \* the outcome of the last call of another handler or of deleteFile

vars == <<disk, alerts, pc, body, files, idx, proofs, fileState, results,
          processCalls, ffmpegErrors, persistCalls, res, serviceKey, last>>

NoResponse == [status |-> 0, success |-> FALSE]
Response(status, success) == [status |-> status, success |-> success]

\* the outcome of a handler other than createAlert, with the inputs it had
HandlerResult(handler, status, error, header, alertId, svcCalled) ==
  [handler |-> handler, status |-> status, error |-> error, header |-> header,
   alertId |-> alertId, svcCalled |-> svcCalled,
   bearer |-> TRUE, payloadStatus |-> "absent",
   url |-> Null, ret |-> "none", before |-> {}, removed |-> {}]

\* the outcome of a request to POST /webhook/status: also whether it carried a
\* valid bearer credential, and the status of its payload
WebhookResult(handler, status, error, bearer, header, alertId, payloadStatus, svcCalled) ==
  [HandlerResult(handler, status, error, header, alertId, svcCalled)
     EXCEPT !.bearer = bearer, !.payloadStatus = payloadStatus]

\* the outcome of deleteFile(url): what it returned, the paths that existed before
\* the call and the paths it removed
DeleteResult(url, ret, before, removed) ==
  [handler |-> "deleteFile", status |-> 0, error |-> "none", header |-> "absent",
   alertId |-> 0, svcCalled |-> FALSE,
   bearer |-> TRUE, payloadStatus |-> "absent",
   url |-> url, ret |-> ret, before |-> before, removed |-> removed]

NoCall == HandlerResult("none", 0, "none", "absent", 0, FALSE)

NoProof == [type |-> "none", url |-> Null, thumbnail |-> Null, size |-> "none"]

RECURSIVE SeqsUpTo(_, _)
SeqsUpTo(S, n) == IF n = 0 THEN {<<>>} ELSE SeqsUpTo(S, n - 1) \cup [1..n -> S]

\* ------------------------------------------------------------------------
\* Construction: createStorageFolders leaves empty folders, the store is empty
\* ------------------------------------------------------------------------
Init ==
  /\ disk = EmptyDisk
  /\ alerts = <<>>
  /\ pc = "idle"
  /\ body = NoBody
  /\ files = <<>>
  /\ idx = 0
  /\ proofs = <<>>
  /\ fileState = <<>>
  /\ results = <<>>
  /\ processCalls = <<>>
  /\ ffmpegErrors = {}
  /\ persistCalls = <<>>
  /\ res = NoResponse
  /\ serviceKey \in {"absent", "secret"}
  /\ last = NoCall

\* ------------------------------------------------------------------------
\* multer: the upload middleware in front of the creation handler
\* ------------------------------------------------------------------------
\* the file multer hands to the handler: stored under destination()/filename()
StoredFile(mimetype, n) ==
  [mimetype |-> mimetype, path |-> Path(destination(mimetype), filename(n))]

RECURSIVE StoreAll(_, _, _)
StoreAll(d, fs, k) ==
  IF k > Len(fs) THEN d ELSE StoreAll(WriteFile(d, fs[k].path, "original"), fs, k + 1)

\* every part passes fileFilter: the files are on disk and the handler runs
Upload ==
  /\ pc = "idle"
  /\ \E b \in Bodies, ms \in SeqsUpTo(UploadMimes, MaxFiles) :
       /\ \A k \in 1..Len(ms) : fileFilter(ms[k])
       /\ body' = b
       /\ files' = [k \in 1..Len(ms) |-> StoredFile(ms[k], k)]
       /\ disk' = StoreAll(disk, [k \in 1..Len(ms) |-> StoredFile(ms[k], k)], 1)
       /\ fileState' = [k \in 1..Len(ms) |-> "pending"]
       /\ results' = [k \in 1..Len(ms) |-> NoProof]
  /\ pc' = "handler"
  /\ UNCHANGED <<alerts, idx, proofs, processCalls, ffmpegErrors, persistCalls, res, serviceKey, last>>

\* a part fails fileFilter: multer passes the error on, the handler never runs
UploadRejected ==
  /\ pc = "idle"
  /\ \E ms \in SeqsUpTo(UploadMimes, MaxFiles) : \E k \in 1..Len(ms) : ~fileFilter(ms[k])
  /\ pc' = "closed"
  /\ UNCHANGED <<disk, alerts, body, files, idx, proofs, fileState, results,
                 processCalls, ffmpegErrors, persistCalls, res, serviceKey, last>>

\* ------------------------------------------------------------------------
\* AlertController.createAlert
\* ------------------------------------------------------------------------
\* a shape check that forgets the length
MutCoordinatesShapeOk(coordinates) == Truthy(coordinates) /\ IsArray(coordinates)

\* line 24, negated: coordinates && Array.isArray(coordinates) && length === 2
CoordinatesShapeOk(coordinates) ==
  Truthy(coordinates) /\ IsArray(coordinates) /\ Len(coordinates.elems) = 2

\* a resolution that looks at the inline proofs first
MutProofSource(fs, b) ==
  IF Truthy(b.proofs) /\ IsArray(b.proofs) /\ Len(b.proofs.elems) > 0 THEN "inline"
  ELSE IF Len(fs) > 0 THEN "files"
  ELSE "none"

\* lines 37-52: which source the proofs are taken from
ProofSource(fs, b) ==
  IF Len(fs) > 0 THEN "files"
  ELSE IF Truthy(b.proofs) /\ IsArray(b.proofs) /\ Len(b.proofs.elems) > 0 THEN "inline"
  ELSE "none"

\* a catch block that clears the storage
MutDiskAfterThrow(d) == EmptyDisk

\* the disk once an exception has travelled to the response: processImage's catch
\* (part_002 lines 130-133) logs and rethrows, the controller's catch (lines
\* 74-79) answers; neither touches a file
DiskAfterThrow(d) == d

\* the catch block: 400 whatever was thrown
CreateCatch ==
  /\ res' = Response(400, FALSE)
  /\ pc' = "done"
  /\ disk' = DiskAfterThrow(disk)

\* lines 20-52 up to the first await
createAlert_begin ==
  /\ pc = "handler"
  /\ IF ~CoordinatesShapeOk(body.coordinates)
       THEN /\ res' = Response(400, FALSE)
            /\ pc' = "done"
            /\ UNCHANGED <<idx, proofs>>
       ELSE /\ res' = res
            /\ CASE ProofSource(files, body) = "files" ->
                      /\ pc' = "file"
                      /\ idx' = 1
                      /\ proofs' = <<>>
                 [] ProofSource(files, body) = "inline" ->
                      /\ pc' = "persist"
                      /\ proofs' = body.proofs.elems
                      /\ idx' = idx
                 [] OTHER ->
                      /\ pc' = "persist"
                      /\ proofs' = <<>>
                      /\ idx' = idx
  /\ UNCHANGED <<disk, alerts, body, files, fileState, results, processCalls,
                 ffmpegErrors, persistCalls, serviceKey, last>>

\* a loop that leaves after its first file
MutLoopNext(i, n) == "persist"

\* line 39: the for..of loop moves on to the next file, or leaves the loop
LoopNext(i, n) == IF i < n THEN "file" ELSE "persist"

\* lines 40-41: processFile returned `proof` for file idx; push and go on
Returned(proof, how) ==
  /\ results' = [results EXCEPT ![idx] = proof]
  /\ fileState' = [fileState EXCEPT ![idx] = how]
  /\ proofs' = Append(proofs, proof)
  /\ pc' = LoopNext(idx, Len(files))
  /\ idx' = IF idx < Len(files) THEN idx + 1 ELSE idx

\* processFile threw for file idx: the await rethrows into the catch block
Thrown ==
  /\ fileState' = [fileState EXCEPT ![idx] = "failed"]
  /\ CreateCatch
  /\ UNCHANGED <<results, proofs, idx, serviceKey, last>>

\* ------------------------------------------------------------------------
\* UploadService.processFile and its three branches
\* ------------------------------------------------------------------------
Basename(file) == file.path.name

ThumbnailPathOfImage(file) == Path("thumbnails", ThumbOfImage(Basename(file)))
ThumbnailPathOfVideo(file) == Path("thumbnails", ThumbOfVideo(Basename(file)))
TmpPath(file) == Path(file.path.folder, TmpOf(Basename(file)))

\* processImage's return value (lines 124-129); size is statSync of file.path
ImageProof(file, d) ==
  [type |-> "photo",
   url |-> Url(<<"uploads", "photos">>, Basename(file)),
   thumbnail |-> Url(<<"uploads", "thumbnails">>, ThumbOfImage(Basename(file))),
   size |-> d[file.path]]

\* processVideo's value on 'end' (lines 155-160)
VideoProof(file, d) ==
  [type |-> "video",
   url |-> Url(<<"uploads", "videos">>, Basename(file)),
   thumbnail |-> Url(<<"uploads", "thumbnails">>, ThumbOfVideo(Basename(file))),
   size |-> d[file.path]]

\* processVideo's value on 'error' (lines 165-170)
VideoProofNoThumbnail(file, d) ==
  [type |-> "video",
   url |-> Url(<<"uploads", "videos">>, Basename(file)),
   thumbnail |-> Null,
   size |-> d[file.path]]

\* an 'error' listener that rejects
MutVideoErrorSettles == "reject"

\* processVideo's 'error' listener settles the promise with resolve, not reject
VideoErrorSettles == "resolve"

\* processAudio's return value (lines 186-191)
AudioProof(file, d) ==
  [type |-> "audio",
   url |-> Url(<<"uploads", "audio">>, Basename(file)),
   thumbnail |-> AudioDefault,
   size |-> d[file.path]]

\* line 40, processFile lines 203-218: dispatch on the MIME type. The audio branch
\* has no I/O to wait for and returns at once; an unsupported type throws.
processFile ==
  /\ pc = "file"
  /\ processCalls' = Append(processCalls, idx)
  /\ LET file == files[idx]
         branch == processFileBranch(file.mimetype)
     IN CASE branch = "image" ->
               /\ pc' = "img_thumb"
               /\ fileState' = [fileState EXCEPT ![idx] = "processing"]
               /\ UNCHANGED <<disk, results, proofs, idx, res>>
          [] branch = "video" ->
               /\ pc' = "video"
               /\ fileState' = [fileState EXCEPT ![idx] = "processing"]
               /\ UNCHANGED <<disk, results, proofs, idx, res>>
          [] branch = "audio" ->
               /\ Returned(AudioProof(file, disk), "ok")
               /\ UNCHANGED <<disk, res>>
          [] OTHER -> Thrown
  /\ UNCHANGED <<alerts, body, files, ffmpegErrors, persistCalls, serviceKey, last>>

\* processImage lines 109-112: sharp writes the thumbnail, or throws
processImage_thumbnail ==
  /\ pc = "img_thumb"
  /\ \E ok \in BOOLEAN :
       IF ok
         THEN /\ disk' = WriteFile(disk, ThumbnailPathOfImage(files[idx]), "thumbnail")
              /\ pc' = "img_optimize"
              /\ UNCHANGED <<fileState, results, proofs, idx, res>>
         ELSE Thrown
  /\ UNCHANGED <<alerts, body, files, processCalls, ffmpegErrors, persistCalls, serviceKey, last>>

\* processImage lines 116-119: sharp opens <path>.tmp and starts writing, or
\* throws before it wrote anything
processImage_optimize_begin ==
  /\ pc = "img_optimize"
  /\ \E ok \in BOOLEAN :
       IF ok
         THEN /\ disk' = WriteFile(disk, TmpPath(files[idx]), "partial")
              /\ pc' = "img_writing"
              /\ UNCHANGED <<fileState, results, proofs, idx, res>>
         ELSE Thrown
  /\ UNCHANGED <<alerts, body, files, processCalls, ffmpegErrors, persistCalls, serviceKey, last>>

\* processImage lines 116-119: sharp finishes <path>.tmp, or throws half-way
processImage_optimize_end ==
  /\ pc = "img_writing"
  /\ \E ok \in BOOLEAN :
       IF ok
         THEN /\ disk' = WriteFile(disk, TmpPath(files[idx]), "optimized")
              /\ pc' = "img_unlink"
              /\ UNCHANGED <<fileState, results, proofs, idx, res>>
         ELSE Thrown
  /\ UNCHANGED <<alerts, body, files, processCalls, ffmpegErrors, persistCalls, serviceKey, last>>

\* processImage line 121: fs.unlinkSync(file.path)
processImage_unlink ==
  /\ pc = "img_unlink"
  /\ disk' = Unlink(disk, files[idx].path)
  /\ pc' = "img_rename"
  /\ UNCHANGED <<alerts, body, files, idx, proofs, fileState, results,
                 processCalls, ffmpegErrors, persistCalls, res, serviceKey, last>>

\* processImage lines 122-129: fs.renameSync(tmp, path), then the return value
processImage_rename ==
  /\ pc = "img_rename"
  /\ disk' = Rename(disk, TmpPath(files[idx]), files[idx].path)
  /\ Returned(ImageProof(files[idx], disk'), "ok")
  /\ UNCHANGED <<alerts, body, files, processCalls, ffmpegErrors, persistCalls, res, serviceKey, last>>

\* processVideo lines 147-171: ffmpeg ends with a screenshot, or errors
processVideo ==
  /\ pc = "video"
  /\ \E extracted \in BOOLEAN :
       IF extracted
         THEN /\ disk' = WriteFile(disk, ThumbnailPathOfVideo(files[idx]), "thumbnail")
              /\ Returned(VideoProof(files[idx], disk), "ok")
              /\ ffmpegErrors' = ffmpegErrors
              /\ res' = res
         ELSE /\ ffmpegErrors' = ffmpegErrors \cup {idx}
              /\ IF VideoErrorSettles = "resolve"
                   THEN /\ Returned(VideoProofNoThumbnail(files[idx], disk), "degraded")
                        /\ UNCHANGED <<disk, res>>
                   ELSE Thrown
  /\ UNCHANGED <<alerts, body, files, processCalls, persistCalls, serviceKey, last>>

\* ------------------------------------------------------------------------
\* alertService.createAlert (services/alert.service, modelled from the spec)
\* ------------------------------------------------------------------------
\* section 4.3: ValidationError on field issues, among them coordinates that are
\* not coercible to two numbers
alertService_accepts(alertData) ==
  /\ alertData.fieldsOk
  /\ \A k \in 1..Len(alertData.coordinates.elems) : IsNumber(alertData.coordinates.elems[k])

\* section 4.3: persists the Alert with initial status "pending"
alertService_createAlert(store, alertData, citizenId) ==
  Append(store, [id |-> Len(store) + 1,
                 citizenId |-> citizenId,
                 coordinates |-> alertData.coordinates.elems,
                 proofs |-> alertData.proofs,
                 status |-> "pending",
                 comments |-> 0])

\* line 55: req.user.sub of the authenticated citizen
Citizen == "c1"

\* lines 57-65
AlertData(b, ps) == [coordinates |-> b.coordinates, fieldsOk |-> b.fieldsOk, proofs |-> ps]

\* lines 57-79: hand alertData to the service, 201 with its result, 400 if it throws
createAlert_persist ==
  /\ pc = "persist"
  /\ persistCalls' = Append(persistCalls, AlertData(body, proofs))
  /\ IF alertService_accepts(AlertData(body, proofs))
       THEN /\ alerts' = alertService_createAlert(alerts, AlertData(body, proofs), Citizen)
            /\ res' = Response(201, TRUE)
            /\ pc' = "done"
            /\ disk' = disk
       ELSE /\ alerts' = alerts
            /\ CreateCatch
  /\ UNCHANGED <<body, files, idx, proofs, fileState, results, processCalls,
                 ffmpegErrors, serviceKey, last>>

\* the response is out: the request and its locals are gone
Finish ==
  /\ pc = "done"
  /\ pc' = "closed"
  /\ body' = NoBody
  /\ files' = <<>>
  /\ idx' = 0
  /\ proofs' = <<>>
  /\ fileState' = <<>>
  /\ results' = <<>>
  /\ processCalls' = <<>>
  /\ ffmpegErrors' = {}
  /\ persistCalls' = <<>>
  /\ res' = NoResponse
  /\ UNCHANGED <<disk, alerts, serviceKey, last>>

\* ------------------------------------------------------------------------
\* The other handlers of AlertController. Each awaits one service call and
\* answers; they act on the store and the disk the creation request left.
\* ------------------------------------------------------------------------
Quiet == pc = "closed"

\* sections 4.4, 4.5: the alert an id resolves to
AlertExists(store, id) == id \in 1..Len(store)

\* x-service-key headers and alert ids a caller may send (0: no alertId)
Headers == {"absent", "wrong", "secret"}
AlertIds == {0, 1, 9}
StatusInputs == {"absent", "resolved"}

\* line 206: !serviceApiKey || serviceApiKey !== process.env.SERVICE_API_KEY
KeyRejected(header, configured) == header = "absent" \/ header # configured

\* the same checks with the fields looked at first
MutUpdateAlertStatus_check(header, configured, alertId, status) ==
  IF alertId = 0 \/ status = "absent" THEN "invalid"
  ELSE IF KeyRejected(header, configured) THEN "unauthorized"
  ELSE "pass"

\* lines 206-218: the checks of updateAlertStatus, in the order of the code
updateAlertStatus_check(header, configured, alertId, status) ==
  IF KeyRejected(header, configured) THEN "unauthorized"
  ELSE IF alertId = 0 \/ status = "absent" THEN "invalid"
  ELSE "pass"

\* section 4.5: NotFoundError if alertId resolves to no Alert, else the status is set
alertService_updateAlertStatus(store, alertId, status) ==
  [store EXCEPT ![alertId].status = status]

\* ------------------------------------------------------------------------
\* The router: its layers in the order they are registered
\* ------------------------------------------------------------------------
Layer(method, path, handler) == [method |-> method, path |-> path, handler |-> handler]

router ==
  << Layer("use", "*", "verifyToken"),
     Layer("post", "/", "createAlert"),
     Layer("get", "/me", "getMyAlerts"),
     Layer("get", "/nearby", "getAlertsNearby"),
     Layer("get", "/:id", "getAlertById"),
     Layer("post", "/:id/comments", "addComment"),
     Layer("post", "/upload", "uploadSingleFile"),
     Layer("post", "/uploads", "uploadMultipleFiles"),
     Layer("delete", "/upload", "deleteFile"),
     Layer("post", "/webhook/status", "updateAlertStatus") >>

\* the middlewares a request passes before it reaches the route of a handler:
\* the router.use layers registered before that route
MiddlewaresBefore(handler) ==
  { router[k].handler : k \in { j \in 1..Len(router) :
        /\ router[j].method = "use"
        /\ \E i \in (j + 1)..Len(router) : router[i].handler = handler } }

\* authMiddleware.verifyToken (middlewares/auth.middleware, modelled from the
\* spec): lets a request with a valid bearer credential through, answers 401 to
\* any other
verifyToken_passes(bearer) == bearer

\* whether the router hands the request to the handler
RouterPasses(handler, bearer) ==
  "verifyToken" \in MiddlewaresBefore(handler) => verifyToken_passes(bearer)

\* a request to POST /webhook/status that verifyToken answers itself
verifyToken_rejects ==
  /\ Quiet
  /\ \E bearer \in BOOLEAN, header \in Headers, alertId \in AlertIds, status \in StatusInputs :
       /\ ~RouterPasses("updateAlertStatus", bearer)
       /\ last' = WebhookResult("verifyToken", 401, "auth", bearer, header, alertId,
                                status, FALSE)
  /\ UNCHANGED <<disk, alerts, pc, body, files, idx, proofs, fileState, results,
                 processCalls, ffmpegErrors, persistCalls, res, serviceKey>>

\* lines 200-233, for a request the router lets through
updateAlertStatus ==
  /\ Quiet
  /\ \E bearer \in BOOLEAN, header \in Headers, alertId \in AlertIds, status \in StatusInputs :
       LET check == updateAlertStatus_check(header, serviceKey, alertId, status)
           Result(code, error, svcCalled) ==
             WebhookResult("updateAlertStatus", code, error, bearer, header, alertId,
                           status, svcCalled)
       IN /\ RouterPasses("updateAlertStatus", bearer)
          /\ CASE check = "unauthorized" ->
                    /\ last' = Result(401, "auth", FALSE)
                    /\ alerts' = alerts
               [] check = "invalid" ->
                    /\ last' = Result(400, "validation", FALSE)
                    /\ alerts' = alerts
               [] check = "pass" /\ AlertExists(alerts, alertId) ->
                    /\ last' = Result(200, "none", TRUE)
                    /\ alerts' = alertService_updateAlertStatus(alerts, alertId, status)
               [] OTHER ->
                    \* the service throws; the catch block answers 400
                    /\ last' = Result(400, "notfound", TRUE)
                    /\ alerts' = alerts
  /\ UNCHANGED <<disk, pc, body, files, idx, proofs, fileState, results,
                 processCalls, ffmpegErrors, persistCalls, res, serviceKey>>

\* section 4.4: appends a comment record
alertService_addComment(store, alertId) ==
  [store EXCEPT ![alertId].comments = @ + 1]

\* lines 134-160
addComment ==
  /\ Quiet
  /\ \E alertId \in AlertIds \ {0}, hasText \in BOOLEAN :
       IF ~hasText
         THEN /\ last' = HandlerResult("addComment", 400, "validation", "absent", alertId, FALSE)
              /\ alerts' = alerts
         ELSE IF AlertExists(alerts, alertId)
           THEN /\ alerts[alertId].comments < MaxComments
                /\ last' = HandlerResult("addComment", 200, "none", "absent", alertId, TRUE)
                /\ alerts' = alertService_addComment(alerts, alertId)
           ELSE \* the service throws; the catch block answers 400
                /\ last' = HandlerResult("addComment", 400, "notfound", "absent", alertId, TRUE)
                /\ alerts' = alerts
  /\ UNCHANGED <<disk, pc, body, files, idx, proofs, fileState, results,
                 processCalls, ffmpegErrors, persistCalls, res, serviceKey>>

\* section 4.4: NotFoundError if the alert is absent or owned by someone else
alertService_getAlertById_found(store, id, citizenId) ==
  AlertExists(store, id) /\ store[id].citizenId = citizenId

\* lines 110-127: the catch block answers 404 whatever was thrown
getAlertById ==
  /\ Quiet
  /\ \E id \in AlertIds \ {0}, citizenId \in {"c1", "c2"} :
       IF alertService_getAlertById_found(alerts, id, citizenId)
         THEN last' = HandlerResult("getAlertById", 200, "none", "absent", id, TRUE)
         ELSE last' = HandlerResult("getAlertById", 404, "notfound", "absent", id, TRUE)
  /\ UNCHANGED <<disk, alerts, pc, body, files, idx, proofs, fileState, results,
                 processCalls, ffmpegErrors, persistCalls, res, serviceKey>>

\* ------------------------------------------------------------------------
\* UploadService.deleteFile
\* ------------------------------------------------------------------------
\* lines 231-251: the folder the URL is taken to name, "none" when it throws
deleteFile_folder(fileUrl) ==
  IF Includes(fileUrl, "photos") THEN "photos"
  ELSE IF Includes(fileUrl, "videos") THEN "videos"
  ELSE IF Includes(fileUrl, "audio") THEN "audio"
  ELSE "none"

\* one thumbnail naming for both folders
MutDeleteFile_thumbnailName(folder, fileName) == ThumbOfImage(fileName)

\* lines 235, 243: the sibling thumbnail of the file a URL names
deleteFile_thumbnailName(folder, fileName) ==
  IF folder = "photos" THEN ThumbOfImage(fileName) ELSE ThumbOfVideo(fileName)

\* a delete that looks for the file before it touches the thumbnail
MutDeleteFile_afterThumbnail(d, fileUrl) == d

\* lines 231-246: the thumbnail goes first, if the folder has thumbnails and it exists
deleteFile_afterThumbnail(d, fileUrl) ==
  LET folder == deleteFile_folder(fileUrl)
      thumbnailPath == Path("thumbnails", deleteFile_thumbnailName(folder, fileUrl.base))
  IN IF folder \in {"photos", "videos"} /\ Exists(d, thumbnailPath)
       THEN Unlink(d, thumbnailPath)
       ELSE d

\* URLs a caller may ask to delete
DeleteNames ==
  {filename(n) : n \in 1..MaxFiles} \cup {Name(<<>>, 1, <<".jpg">>)}
DeleteUrls ==
  {Url(<<"uploads", f>>, n) : f \in {"photos", "videos", "audio", "thumbnails"}, n \in DeleteNames}

\* lines 225-264
deleteFile ==
  /\ Quiet
  /\ \E fileUrl \in DeleteUrls :
       LET folder == deleteFile_folder(fileUrl)
           filePath == Path(folder, fileUrl.base)
           d1 == deleteFile_afterThumbnail(disk, fileUrl)
       IN IF folder = "none"
            THEN /\ disk' = disk
                 /\ last' = DeleteResult(fileUrl, "throws", DOMAIN disk, {})
            ELSE IF Exists(d1, filePath)
              THEN /\ disk' = Unlink(d1, filePath)
                   /\ last' = DeleteResult(fileUrl, "true", DOMAIN disk,
                                           (DOMAIN disk) \ (DOMAIN disk'))
              ELSE /\ disk' = d1
                   /\ last' = DeleteResult(fileUrl, "false", DOMAIN disk,
                                           (DOMAIN disk) \ (DOMAIN disk'))
  /\ UNCHANGED <<alerts, pc, body, files, idx, proofs, fileState, results,
                 processCalls, ffmpegErrors, persistCalls, res, serviceKey>>

\* the creation request, from the upload to the response
CreationRequest ==
  \/ Upload
  \/ UploadRejected
  \/ createAlert_begin
  \/ processFile
  \/ processImage_thumbnail
  \/ processImage_optimize_begin
  \/ processImage_optimize_end
  \/ processImage_unlink
  \/ processImage_rename
  \/ processVideo
  \/ createAlert_persist
  \/ Finish

\* the controller: the creation request, then the handlers on the alert store
Next ==
  \/ CreationRequest
  \/ verifyToken_rejects
  \/ updateAlertStatus
  \/ addComment
  \/ getAlertById

Spec == Init /\ [][Next]_vars

\* the upload service: the creation request, then deletions on the disk it left.
\* deleteFile never reads the alert store and the handlers above never read the
\* disk, so the two are followed apart.
NextStore ==
  \/ CreationRequest
  \/ deleteFile

SpecStore == Init /\ [][NextStore]_vars

\* ------------------------------------------------------------------------
\* Properties
\* ------------------------------------------------------------------------
\* the handler has started on the request and the request is still at hand
HandlerStarted == pc \notin {"idle", "handler", "closed"}

\* coordinates absent, not an array, or an array of a length other than 2
CoordinatesMalformed(c) == c.kind # "array" \/ Len(c.elems) # 2

\* the kind of proof a MIME type stands for
KindOfMime(mimetype) ==
  CASE mimetype.major = "image" -> "photo"
    [] mimetype.major = "video" -> "video"
    [] mimetype.major = "audio" -> "audio"
    [] OTHER -> "none"

\* the storage folder of a kind of proof
FolderOfKind(kind) ==
  CASE kind = "photo" -> "photos"
    [] kind = "video" -> "videos"
    [] kind = "audio" -> "audio"
    [] OTHER -> "none"

Completed(k) == fileState[k] \in {"ok", "degraded"}

\* C1: a creation request whose coordinates are absent, not an array, or an array
\* of a length other than 2 is answered 400 with success = false; processFile and
\* alertService.createAlert are not invoked for it, no file is processed and
\* nothing is persisted.
C1_MalformedCoordinatesRejected ==
  (HandlerStarted /\ CoordinatesMalformed(body.coordinates)) =>
    /\ pc = "done"
    /\ res = Response(400, FALSE)
    /\ processCalls = <<>>
    /\ persistCalls = <<>>
    /\ alerts = <<>>
    /\ DOMAIN disk = {files[k].path : k \in 1..Len(files)}
    /\ \A p \in DOMAIN disk : disk[p] = "original"

C1_Witness ==
  /\ pc = "done"
  /\ body.coordinates = Arr(<<"2.35", "48.85", "2.35">>)
  /\ Len(files) = 2
  /\ res = Response(400, FALSE)

\* the proofs the claim expects persistence to be handed
C2_Expected ==
  IF Len(files) > 0 THEN [k \in 1..Len(files) |-> results[k]]
  ELSE IF body.proofs.kind = "array" /\ Len(body.proofs.elems) > 0 THEN body.proofs.elems
  ELSE <<>>

\* C2: with uploaded files, the proofs handed to persistence are the processFile
\* results of those files, one per file and in submission order, and the inline
\* proofs are discarded; without files a non-empty inline array is used verbatim;
\* otherwise the list is empty and creation still proceeds.
C2_ProofSourceResolution ==
  /\ \A n \in 1..Len(persistCalls) :
       /\ persistCalls[n].proofs = C2_Expected
       /\ Len(files) > 0 =>
            \A k \in 1..Len(files) :
              /\ persistCalls[n].proofs[k].url.base = files[k].path.name
              /\ persistCalls[n].proofs[k].type = KindOfMime(files[k].mimetype)
  /\ (pc = "done" /\ ~CoordinatesMalformed(body.coordinates) /\ Len(files) = 0) =>
       Len(persistCalls) = 1

C2_Witness ==
  /\ Len(persistCalls) = 1
  /\ Len(files) = 2
  /\ files[1].mimetype.major = "video"
  /\ files[2].mimetype.major = "image"
  /\ body.proofs = Arr(<<InlineMismatch, InlinePhoto>>)
  /\ Len(persistCalls[1].proofs) = 2

\* C3: within the creation request alertService.createAlert is invoked at most
\* once and only after processFile has completed (success or video degrade) for
\* every attached file, the files being processed one after another in order; if
\* processFile fails for a file, persistence is not invoked and the answer is 400.
C3_PersistAfterAllFiles ==
  /\ Len(persistCalls) <= 1
  /\ persistCalls # <<>> => \A k \in 1..Len(files) : Completed(k)
  /\ \A n \in 1..Len(processCalls) : processCalls[n] = n
  /\ \A k \in 1..Len(files) :
       fileState[k] # "pending" => \A j \in 1..(k - 1) : Completed(j)
  /\ (\E k \in 1..Len(files) : fileState[k] = "failed") =>
       /\ persistCalls = <<>>
       /\ alerts = <<>>
       /\ pc = "done"
       /\ res = Response(400, FALSE)

C3_Witness ==
  /\ pc = "done"
  /\ Len(files) = 2
  /\ fileState = <<"ok", "degraded">>
  /\ Len(persistCalls) = 1
  /\ res.status = 201

\* C4: when frame extraction fails for a video file, processFile does not fail: it
\* yields a proof of type 'video' with the url of the stored file and thumbnail =
\* null, and a creation request with that file still persists an Alert holding
\* that proof and answers 201.
C4_VideoThumbnailDegrades ==
  \A k \in ffmpegErrors :
    /\ fileState[k] = "degraded"
    /\ results[k].type = "video"
    /\ results[k].url = Url(<<"uploads", "videos">>, files[k].path.name)
    /\ results[k].thumbnail = Null
    /\ Exists(disk, Path("videos", files[k].path.name))
    /\ ( /\ pc = "done"
         /\ \A j \in 1..Len(files) : fileState[j] # "failed"
         /\ body.fieldsOk
         /\ \A e \in 1..Len(body.coordinates.elems) : IsNumber(body.coordinates.elems[e]) )
       => /\ res = Response(201, TRUE)
          /\ Len(alerts) = 1
          /\ alerts[1].proofs[k] = results[k]

C4_Witness ==
  /\ pc = "done"
  /\ ffmpegErrors = {1, 2}
  /\ res = Response(201, TRUE)
  /\ alerts[1].proofs[2].thumbnail = Null

\* a key the claim calls bad: absent, or other than the configured secret
BadKey(header) == header = "absent" \/ header # serviceKey

\* C5: a status-update request whose x-service-key is absent or differs from the
\* configured secret is answered 401 whatever its payload (also when alertId or
\* status is missing), alertService.updateAlertStatus is not invoked and no alert
\* changes.
C5_BadKeyAlways401 ==
  /\ [](( last.handler = "updateAlertStatus" /\ BadKey(last.header) ) =>
          ( last.status = 401 /\ ~last.svcCalled ))
  /\ [][( last'.handler = "updateAlertStatus" /\ BadKey(last'.header) ) =>
          alerts' = alerts]_vars

C5_Witness ==
  /\ last.handler = "updateAlertStatus"
  /\ last.header = "wrong"
  /\ serviceKey = "secret"
  /\ last.alertId = 0
  /\ last.status = 401
  /\ Len(alerts) = 1

\* the URL /uploads/<folder>/<name>
UnderFolder(url, folder) == url.dirs = <<"uploads", folder>>

\* the thumbnail the claim names for a file of a folder
C6_Thumbnail(folder, name) ==
  IF folder = "photos"
    THEN Path("thumbnails", Name(<<"thumb_">> \o name.pre, name.id, name.suf))
    ELSE Path("thumbnails", Name(<<"thumb_">> \o name.pre, name.id, name.suf \o <<".jpg">>))

\* C6: deleteFile of a URL under /photos/ (resp. /videos/) removes the file and its
\* thumbnail thumb_<name> (resp. thumb_<name>.jpg) when present and returns true;
\* when the file does not exist it returns false and raises no error; a missing
\* thumbnail does not fail the delete.
C6_DeleteRemovesThumbnail ==
  \A folder \in {"photos", "videos"} :
    (last.handler = "deleteFile" /\ UnderFolder(last.url, folder)) =>
      LET primary == Path(folder, last.url.base)
          thumb == C6_Thumbnail(folder, last.url.base)
      IN /\ last.ret # "throws"
         /\ last.ret = IF primary \in last.before THEN "true" ELSE "false"
         /\ primary \in last.before =>
              last.removed = {primary} \cup ({thumb} \cap last.before)
         /\ primary \notin DOMAIN disk
         /\ thumb \notin DOMAIN disk

C6_Witness ==
  /\ last.handler = "deleteFile"
  /\ UnderFolder(last.url, "videos")
  /\ last.ret = "true"
  /\ last.removed = {Path("videos", last.url.base), C6_Thumbnail("videos", last.url.base)}

\* a proof whose type matches the folder its url names
ProofMatchesFolder(proof) == UnderFolder(proof.url, FolderOfKind(proof.type))

\* C7: every Proof of every persisted Alert has a type matching the storage folder
\* of its url, for the proofs processFile makes of every MIME type the upload filter
\* accepts (upload folder and processing kind agree) and for inline proofs.
C7_ProofTypeMatchesFolder ==
  /\ \A a \in 1..Len(alerts) : \A k \in 1..Len(alerts[a].proofs) :
       ProofMatchesFolder(alerts[a].proofs[k])
  /\ \A m \in allowedMimeTypes : destination(m) = FolderOfKind(KindOfMime(m))
  /\ \A k \in 1..Len(files) :
       Completed(k) => /\ ProofMatchesFolder(results[k])
                       /\ UnderFolder(results[k].url, files[k].path.folder)

\* C8: while processImage replaces an image by its optimized version, a reader of
\* the image's path finds a complete file at every point: the original or the
\* optimized one, never a partial file and never none.
C8_SwapAtomicForReaders ==
  \A k \in 1..Len(files) :
    (files[k].mimetype.major = "image" /\ fileState[k] = "processing") =>
      /\ Exists(disk, files[k].path)
      /\ disk[files[k].path] \in {"original", "optimized"}

\* C9: every handler answers a failure with the status of its class: validation and
\* processing 400, authentication 401, not-found 404; so a status update or a
\* comment on an alertId that resolves to no Alert answers 404, and getAlertById
\* answers 404 for not-found failures only.
C9_StatusByFailureClass ==
  /\ last.error = "validation" => last.status = 400
  /\ last.error = "auth" => last.status = 401
  /\ last.error = "notfound" => last.status = 404
  /\ (last.handler = "getAlertById" /\ last.status = 404) => last.error = "notfound"
  /\ (pc = "done" /\ ~res.success) => res.status = 400

\* C10: a creation request whose coordinates are two elements of which one is not
\* coercible to a number is answered 400 and does not reach persistence: the
\* coordinates handed to alertService.createAlert are always two numbers.
C10_CoordinatesNumeric ==
  /\ \A n \in 1..Len(persistCalls) :
       /\ Len(persistCalls[n].coordinates.elems) = 2
       /\ \A e \in 1..2 : IsNumber(persistCalls[n].coordinates.elems[e])
  /\ ( /\ pc = "done"
       /\ \E e \in 1..Len(body.coordinates.elems) : ~IsNumber(body.coordinates.elems[e]) )
     => res = Response(400, FALSE)

\* C11: the status webhook is authenticated by the service secret alone: a request
\* to POST /webhook/status with the correct x-service-key and a payload holding
\* alertId and status reaches updateAlertStatus and is applied, with or without a
\* citizen bearer credential.
C11_WebhookKeyAlone ==
  ( /\ last.handler \in {"verifyToken", "updateAlertStatus"}
    /\ ~BadKey(last.header)
    /\ last.alertId # 0
    /\ last.payloadStatus # "absent" )
  => /\ last.handler = "updateAlertStatus"
     /\ last.svcCalled
     /\ AlertExists(alerts, last.alertId) =>
          /\ last.status = 200
          /\ alerts[last.alertId].status = last.payloadStatus

\* the path under uploads/ that a proof's URL names
PathOfUrl(url) == Path(url.dirs[Len(url.dirs)], url.base)

\* the files on disk that belong to the k-th uploaded file: its stored name,
\* alone or decorated with thumb_, .jpg or .tmp
AssetsOf(k) == { p \in DOMAIN disk : p.name.id = k }

\* C12: after every successful processFile the disk holds, for that file, exactly
\* one primary asset at the path of the returned url, at most one thumbnail and no
\* .tmp file: an image has its optimised primary and thumb_<name>; a video has its
\* primary and thumb_<name>.jpg, or its primary alone when the returned thumbnail
\* is null; an audio has its primary alone and the shared placeholder as thumbnail.
C12_AssetsAfterProcessFile ==
  \A k \in 1..Len(files) :
    Completed(k) =>
      LET proof == results[k]
          name == files[k].path.name
          primary == PathOfUrl(proof.url)
          kind == KindOfMime(files[k].mimetype)
      IN /\ primary = Path(FolderOfKind(kind), name)
         /\ Exists(disk, primary)
         /\ ~Exists(disk, TmpPath(files[k]))
         /\ \A p \in AssetsOf(k) : p.name.suf # name.suf \o <<".tmp">>
         /\ Cardinality(AssetsOf(k) \ {primary}) <= 1
         /\ CASE kind = "photo" ->
                   /\ disk[primary] = "optimized"
                   /\ proof.thumbnail = Url(<<"uploads", "thumbnails">>, ThumbOfImage(name))
                   /\ AssetsOf(k) = {primary, Path("thumbnails", ThumbOfImage(name))}
              [] kind = "video" /\ proof.thumbnail # Null ->
                   /\ proof.thumbnail = Url(<<"uploads", "thumbnails">>, ThumbOfVideo(name))
                   /\ AssetsOf(k) = {primary, Path("thumbnails", ThumbOfVideo(name))}
              [] kind = "video" /\ proof.thumbnail = Null ->
                   AssetsOf(k) = {primary}
              [] kind = "audio" ->
                   /\ proof.thumbnail = AudioDefault
                   /\ ~Exists(disk, PathOfUrl(AudioDefault))
                   /\ AssetsOf(k) = {primary}
              [] OTHER -> FALSE

C12_Witness ==
  /\ pc = "done"
  /\ Len(files) = 2
  /\ KindOfMime(files[1].mimetype) = "photo"
  /\ KindOfMime(files[2].mimetype) = "video"
  /\ fileState = <<"ok", "degraded">>
  /\ Cardinality(AssetsOf(1)) = 2
  /\ Cardinality(AssetsOf(2)) = 1

\* the proof of file k is referenced by a persisted alert
Referenced(k) ==
  \E a \in 1..Len(alerts) : \E j \in 1..Len(alerts[a].proofs) :
    alerts[a].proofs[j].url = results[k].url

\* the files on disk that the proof of file k names
ProofAssets(k) ==
  {PathOfUrl(results[k].url)}
    \cup (IF results[k].thumbnail \in {Null, AudioDefault}
            THEN {}
            ELSE {PathOfUrl(results[k].thumbnail)})

\* the request has been answered with a failure
CreationFailed == pc = "done" /\ res = Response(400, FALSE)

\* C13: a failed creation does not roll back storage. When the request fails
\* after some files were processed, the assets of those files stay on disk though
\* no alert references them; the step that fails removes no file, and when
\* processImage fails during optimisation the thumbnail it wrote stays; nothing is
\* cleaned up once the response is out.
C13_NoRollbackOnFailure ==
  /\ [](CreationFailed =>
          \A k \in 1..Len(files) :
            Completed(k) => /\ ProofAssets(k) \subseteq DOMAIN disk
                            /\ ~Referenced(k))
  /\ [][ /\ (pc # "done" /\ pc' = "done" /\ res' = Response(400, FALSE)) =>
              /\ disk' = disk
              /\ alerts' = alerts
              /\ pc \in {"img_optimize", "img_writing"} =>
                   Exists(disk', ThumbnailPathOfImage(files[idx]))
         /\ pc \in {"done", "closed"} => disk' = disk ]_vars

C13_Witness ==
  /\ CreationFailed
  /\ Len(files) = 2
  /\ fileState = <<"ok", "failed">>
  /\ KindOfMime(files[1].mimetype) = "photo"
  /\ KindOfMime(files[2].mimetype) = "photo"
  /\ ProofAssets(1) \subseteq DOMAIN disk
  /\ Exists(disk, ThumbnailPathOfImage(files[2]))
  /\ Exists(disk, TmpPath(files[2]))
  /\ alerts = <<>>

\* the thumbnails on disk before the call that the URL of the last deleteFile
\* stands for: thumb_<name> under /photos/, thumb_<name>.jpg under /videos/
C14_ThumbnailsBefore ==
  { C6_Thumbnail(folder, last.url.base) :
      folder \in { f \in {"photos", "videos"} : UnderFolder(last.url, f) } }
    \cap last.before

\* C14: a false return of deleteFile does not mean the storage is unchanged. For a
\* URL under /photos/ or /videos/ whose primary file is absent while its thumbnail
\* exists, the thumbnail is removed and false is returned; in every other case of
\* a false return, and whenever deleteFile throws, no file is removed.
C14_FalseMayRemoveThumbnail ==
  last.handler = "deleteFile" =>
    /\ last.ret = "throws" =>
         /\ last.removed = {}
         /\ DOMAIN disk = last.before
    /\ last.ret = "false" =>
         /\ last.removed = C14_ThumbnailsBefore
         /\ DOMAIN disk = last.before \ C14_ThumbnailsBefore
    /\ \A folder \in {"photos", "videos"} :
         ( /\ UnderFolder(last.url, folder)
           /\ Path(folder, last.url.base) \notin last.before
           /\ C6_Thumbnail(folder, last.url.base) \in last.before )
         => /\ last.ret = "false"
            /\ last.removed = {C6_Thumbnail(folder, last.url.base)}
            /\ ~Exists(disk, C6_Thumbnail(folder, last.url.base))

C14_Witness ==
  /\ last.handler = "deleteFile"
  /\ last.ret = "false"
  /\ UnderFolder(last.url, "photos")
  /\ Path("photos", last.url.base) \notin last.before
  /\ last.removed = {Path("thumbnails", ThumbOfImage(last.url.base))}

====
